---- MODULE Spec2Model ----
(***************************************************************************)
(* Model of MeetingScheduler (src/main.py): one scheduler instance that    *)
(* serially processes meeting requests against the extraction service, the *)
(* two record stores (customers, leads), the calendar service and the      *)
(* meeting-notes store.                                                    *)
(*                                                                         *)
(* Python text is a sequence of one-character strings (operator answers    *)
(* are one-token sequences whose case mapping is tabulated below); a       *)
(* Python value is a tagged record, so that a missing key, None and the    *)
(* empty string stay distinct.                                             *)
(***************************************************************************)
EXTENDS Integers, Sequences, FiniteSets, TLC

\* ------------------------------------------------------------------ bounds
MaxRequests == 2      \* requests one instance processes serially (SpecSerial)
MaxEmailTries == 2    \* rejected answers to the address prompt per request

\* ------------------------------------------------------------------ text
LowerTokens == <<"a", "c", "k", "t", "v", "x", "yes", "y", "oui", "o", "no",
                 "customer", "client", "lead">>
UpperTokens == <<"A", "C", "K", "T", "V", "X", "YES", "Y", "OUI", "O", "NO",
                 "CUSTOMER", "CLIENT", "LEAD">>

\* str.lower() / str.upper() on one character
ToLower(c) ==
    IF \E i \in 1..Len(UpperTokens) : UpperTokens[i] = c
    THEN LowerTokens[CHOOSE i \in 1..Len(UpperTokens) : UpperTokens[i] = c]
    ELSE c

ToUpper(c) ==
    IF \E i \in 1..Len(LowerTokens) : LowerTokens[i] = c
    THEN UpperTokens[CHOOSE i \in 1..Len(LowerTokens) : LowerTokens[i] = c]
    ELSE c

lower(s) == [i \in 1..Len(s) |-> ToLower(s[i])]

upper(s) == [i \in 1..Len(s) |-> ToUpper(s[i])]

\* str.capitalize(): first character upper-cased, the rest lower-cased
capitalize(s) == [i \in 1..Len(s) |-> IF i = 1 THEN ToUpper(s[i]) ELSE ToLower(s[i])]

\* index of the first occurrence of c in s at or after position from, else 0
FindFrom(s, c, from) ==
    IF \E i \in from..Len(s) : s[i] = c
    THEN CHOOSE i \in from..Len(s) : s[i] = c /\ \A j \in from..(i - 1) : s[j] # c
    ELSE 0

\* s.split(c)[0]
SplitFirst(s, c) ==
    IF FindFrom(s, c, 1) = 0 THEN s ELSE SubSeq(s, 1, FindFrom(s, c, 1) - 1)

\* s.split(c)[1], defined when s contains c
SplitSecond(s, c) ==
    LET a == FindFrom(s, c, 1)
        b == FindFrom(s, c, a + 1)
    IN  IF b = 0 THEN SubSeq(s, a + 1, Len(s)) ELSE SubSeq(s, a + 1, b - 1)

\* the store filter's "contains": needle is a contiguous part of hay
Contains(hay, needle) ==
    \E i \in 0..(Len(hay) - Len(needle)) :
        \A j \in 1..Len(needle) : hay[i + j] = needle[j]

\* re.match(r"[^@]+@[^@]+\.[^@]+", s): a match of a prefix of s
EmailRegexMatch(s) ==
    LET at == FindFrom(s, "@", 1)
    IN  /\ at > 1
        /\ \E p \in (at + 2)..(Len(s) - 1) :
              /\ s[p] = "."
              /\ s[p + 1] # "@"
              /\ \A j \in (at + 1)..(p - 1) : s[j] # "@"

\* ------------------------------------------------------------------ values
Absent == [t |-> "absent"]                    \* key not in the dict
None == [t |-> "none"]                        \* JSON null / Python None
StrVal(s) == [t |-> "str", s |-> s]
IntVal(n) == [t |-> "int", n |-> n]
\* an ISO-8601 timestamp string; off = "" when it carries no UTC offset
Iso(h, m, off) == [t |-> "iso", h |-> h, m |-> m, off |-> off]

\* Python truthiness of a dict.get() result
Truthy(v) ==
    /\ v.t \notin {"absent", "none"}
    /\ ~(v.t = "str" /\ v.s = <<>>)
    /\ ~(v.t = "int" /\ v.n = 0)

\* ------------------------------------------------------------------ timestamps
\* UTC offset of Europe/Paris on the dates the model uses (summer time)
ParisOffset == "+02:00"

\* datetime.datetime.fromisoformat(v): the parsed value, or the exception class
fromisoformat(v) ==
    CASE v.t = "iso" -> [ok |-> TRUE, h |-> v.h, m |-> v.m, off |-> v.off]
      [] v.t = "str" -> [ok |-> FALSE, cls |-> "ValueError"]
      [] OTHER -> [ok |-> FALSE, cls |-> "TypeError"]

\* an extractor that reads an offset-less timestamp as UTC and converts it
\* to Paris time
WithParisTz_Converts(dt) ==
    IF dt.off = ""
    THEN [dt EXCEPT !.h = (dt.h + 2) % 24, !.off = ParisOffset]
    ELSE dt

\* dt.replace(tzinfo=paris_tz) when dt carries no tzinfo
WithParisTz(dt) == IF dt.off = "" THEN [dt EXCEPT !.off = ParisOffset] ELSE dt

\* dt.isoformat()
isoformat(dt) == Iso(dt.h, dt.m, dt.off)

\* start_time + datetime.timedelta(minutes=d), as (hour, minute, day carry)
PlusMinutes(dt, d) ==
    LET total == dt.h * 60 + dt.m + d
    IN  [h |-> (total \div 60) % 24, m |-> total % 60, off |-> dt.off,
         days |-> total \div 1440]

\* ------------------------------------------------------------------ errors
\* An exception as the handlers see it: its class, the function that raised
\* it, the commit step it came from (or "" outside the commit stage), the
\* language of its message template ("py" for interpreter text) and the
\* field names its message spells out.
Exc(cls, origin, step, msgLang, names) ==
    [cls |-> cls, origin |-> origin, step |-> step, lang |-> msgLang, names |-> names]

\* the message template choice `... if lang == 'fr' else ...`
TemplateLang(l) == IF l = "fr" THEN "fr" ELSE "en"

\* a top-level handler whose message is English whatever the language
TopLevelError_English(l, e) ==
    [status |-> "raised", cls |-> "ValidationError", lang |-> "en",
     origin |-> e.origin, step |-> e.step, detail |-> e.lang, names |-> e.names,
     cause |-> e.cls]

\* process_meeting_request's except clause: any exception of the body is
\* re-raised as one ValidationError whose localized prefix wraps str(e)
TopLevelError(l, e) ==
    [status |-> "raised", cls |-> "ValidationError", lang |-> TemplateLang(l),
     origin |-> e.origin, step |-> e.step, detail |-> e.lang, names |-> e.names,
     cause |-> e.cls]

\* an exception raised before the try block leaves the function unwrapped
Uncaught(e) ==
    [status |-> "raised", cls |-> e.cls, lang |-> e.lang,
     origin |-> e.origin, step |-> e.step, detail |-> e.lang, names |-> e.names,
     cause |-> e.cls]

NoOutcome == [status |-> "none"]

\* ------------------------------------------------------------------ validation
RequiredFields == {"title", "datetime", "attendee_email"}

\* [field for field in required_fields if not meeting_info.get(field)]
MissingFields(mi) == {f \in RequiredFields : ~Truthy(mi[f])}

\* validate_meeting_info: the exception it raises, or ok
validate_meeting_info(mi) ==
    IF MissingFields(mi) # {}
    THEN [ok |-> FALSE,
          exc |-> Exc("ValidationError", "validate_meeting_info", "", "en", MissingFields(mi))]
    ELSE IF mi.attendee_email.t # "str"
    THEN [ok |-> FALSE, exc |-> Exc("TypeError", "validate_meeting_info", "", "py", {})]
    ELSE IF ~EmailRegexMatch(mi.attendee_email.s)
    THEN [ok |-> FALSE,
          exc |-> Exc("ValidationError", "validate_meeting_info", "", "en", {"attendee_email"})]
    ELSE IF fromisoformat(mi.datetime).ok
    THEN [ok |-> TRUE]
    ELSE IF fromisoformat(mi.datetime).cls = "ValueError"
    THEN [ok |-> FALSE,
          exc |-> Exc("ValidationError", "validate_meeting_info", "", "en", {"datetime"})]
    ELSE [ok |-> FALSE, exc |-> Exc("TypeError", "validate_meeting_info", "", "py", {})]

\* ------------------------------------------------------------------ company names
\* extract_company_from_email on a value: the name, or the exception class of
\* meeting_info['attendee_email'] / email.split('@')[1]
extract_company_from_email(v) ==
    CASE v.t = "absent" -> [ok |-> FALSE, cls |-> "KeyError"]
      [] v.t # "str" -> [ok |-> FALSE, cls |-> "AttributeError"]
      [] FindFrom(v.s, "@", 1) = 0 -> [ok |-> FALSE, cls |-> "IndexError"]
      [] OTHER -> [ok |-> TRUE,
                   name |-> capitalize(SplitFirst(SplitSecond(v.s, "@"), "."))]

\* meeting_info.get('company_name') or self.extract_company_from_email(...)
CompanyNameOf(mi) ==
    IF Truthy(mi.company_name)
    THEN [ok |-> TRUE, name |-> mi.company_name.s]
    ELSE extract_company_from_email(mi.attendee_email)

\* a resolver that leaves the upper-cased name out of its variants
company_variations_NoUpper(company_name, email) ==
    << company_name,
       lower(company_name),
       capitalize(SplitFirst(SplitSecond(email, "@"), ".")),
       capitalize(SplitSecond(email, "@")) >>

\* company_variations of find_company_in_database
company_variations(company_name, email) ==
    << company_name,
       lower(company_name),
       upper(company_name),
       capitalize(SplitFirst(SplitSecond(email, "@"), ".")),
       capitalize(SplitSecond(email, "@")) >>

\* a store that answers with its matching records in reverse order
QueryResults_Reversed(store, variations) ==
    LET found == SelectSeq(store, LAMBDA r :
                     \E i \in 1..Len(variations) : Contains(r.title, variations[i]))
    IN  [i \in 1..Len(found) |-> found[Len(found) + 1 - i]]

\* the OR-of-contains filter of databases.query, applied to a store
QueryResults(store, variations) ==
    SelectSeq(store, LAMBDA r : \E i \in 1..Len(variations) : Contains(r.title, variations[i]))

\* a resolved counterparty {'type': ..., 'data': ...}
Info(type, data) == [t |-> "info", type |-> type, data |-> data]

\* get_company_name_from_info: None when there is no record or its title
\* property cannot be read (KeyError / IndexError)
get_company_name_from_info(ci) == IF ci.t = "info" THEN ci.data.name ELSE None

\* ------------------------------------------------------------------ inputs
S_yes == <<"yes">>
S_y == <<"y">>
S_oui == <<"oui">>
S_o == <<"o">>
S_customer == <<"customer">>
S_client == <<"client">>
S_lead == <<"lead">>

GoodEmail == <<"v", "@", "k", ".", "t">>
NoDotEmail == <<"v", "@", "k">>
NoAtEmail == <<"v", "k">>
SyncTitle == <<"Sync">>
HintName == <<"A", "c">>

\* what the language-detection library may do with an utterance
DetectOutcomes == {"en", "fr", "de", "throw"}

DraftTitles == {Absent, None, StrVal(<<>>), StrVal(SyncTitle)}
DraftDatetimes == {Absent, None, StrVal(<<>>), StrVal(<<"x">>),
                   Iso(14, 30, ""), Iso(23, 45, "+02:00")}
DraftDurations == {Absent, None, IntVal(45)}
DraftEmails == {Absent, None, StrVal(<<>>), StrVal(NoAtEmail), StrVal(GoodEmail)}
DraftCompanies == {None, StrVal(HintName)}

\* the JSON objects the extraction service may answer with
Drafts ==
    [title : DraftTitles, datetime : DraftDatetimes, duration : DraftDurations,
     attendee_email : DraftEmails, company_name : DraftCompanies]

\* what the operator may type at each prompt
OperatorEmails == {NoDotEmail, GoodEmail, <<" ">> \o GoodEmail}
OperatorTitles == {<<>>, <<" ">>, SyncTitle}
OperatorAnswers == {S_yes, <<"YES">>, S_oui, S_o, <<"no">>}
OperatorTypes == {S_customer, <<"CLIENT">>, S_lead}

\* a record of the customers or leads store: its id, the plain text of its
\* title property and the name get_company_name_from_info reads from it
Rec(id, title, name) == [id |-> id, title |-> title, name |-> name]

InitialCustomers == { <<>>, <<Rec(1, <<"K">>, StrVal(<<"K">>))>> }
InitialLeads == { <<>>, <<Rec(1, <<"k", "x">>, None), Rec(2, <<"K">>, StrVal(<<"K">>))>> }

\* ------------------------------------------------------------------ state
VARIABLES
    scheduler,     \* the MeetingScheduler instance: interactive flag and store ids
    customers,     \* customers store
    leads,         \* leads store
    notes,         \* meeting-notes store (pages)
    calendar,      \* calendar events
    requests,      \* requests submitted so far
    pc,            \* position of process_meeting_request
    detected,      \* what detect(user_request) did
    response,      \* the extraction service's answer (message.content)
    lang,          \* detected language code ("" before detection)
    meeting_info,  \* the dict built by the extractor and gap filling
    info,          \* _get_missing_info's dict
    tries,         \* rejected answers to the address prompt
    company_name,  \* candidate company name
    company_info,  \* resolved counterparty or None
    create,        \* the operator's answer to the creation prompt
    entry_type,    \* the local entry_type (unbound until assigned)
    meet_link,     \* the conference link returned by the calendar
    notion_page,   \* id of the page created by this request (0: none)
    outcome,       \* what the call returned or raised
    log            \* external calls and prompts issued by the current request

vars == <<scheduler, customers, leads, notes, calendar, requests, pc, detected,
          response, lang, meeting_info, info, tries, company_name, company_info, create,
          entry_type, meet_link, notion_page, outcome, log>>

external == <<customers, leads, notes, calendar>>

Unbound == [t |-> "unbound"]
NoResponse == [kind |-> "none"]
NoInfo == [attendee_email |-> Absent, title |-> Absent]
EmptyDraft ==
    [title |-> Absent, datetime |-> Absent, duration |-> Absent,
     attendee_email |-> Absent, company_name |-> Absent]

\* MeetingScheduler.__init__
NewScheduler(interactive) ==
    [interactive |-> interactive,
     notion_database_id |-> "NOTION_DATABASE_ID",
     customers_database_id |-> "NOTION_CUSTOMERS_DATABASE_ID",
     leads_database_id |-> "NOTION_LEADS_DATABASE_ID"]

Init ==
    /\ scheduler \in {NewScheduler(b) : b \in BOOLEAN}
    /\ customers \in InitialCustomers
    /\ leads \in InitialLeads
    /\ notes = <<>>
    /\ calendar = <<>>
    /\ requests = 0
    /\ pc = "idle"
    /\ detected = ""
    /\ response = NoResponse
    /\ lang = ""
    /\ meeting_info = EmptyDraft
    /\ info = NoInfo
    /\ tries = 0
    /\ company_name = <<>>
    /\ company_info = None
    /\ create = <<>>
    /\ entry_type = Unbound
    /\ meet_link = None
    /\ notion_page = 0
    /\ outcome = NoOutcome
    /\ log = <<>>

\* ------------------------------------------------------------------ helpers
\* one external call or prompt of the current request: whether it returned
\* normally and, for a store query, how many records it returned
Call(name, ok, n) == [call |-> name, ok |-> ok, n |-> n]

Issue(name, ok, n) == log' = Append(log, Call(name, ok, n))

\* the body's exception reaches process_meeting_request's except clause
Raise(e) ==
    /\ outcome' = TopLevelError(lang, e)
    /\ pc' = "done"

\* s.strip()
RECURSIVE StripLeft(_)
StripLeft(s) == IF s # <<>> /\ Head(s) = " " THEN StripLeft(Tail(s)) ELSE s

RECURSIVE StripRight(_)
StripRight(s) ==
    IF s # <<>> /\ s[Len(s)] = " " THEN StripRight(SubSeq(s, 1, Len(s) - 1)) ELSE s

strip(s) == StripRight(StripLeft(s))

\* ------------------------------------------------------------------ detection
\* lang = detect(user_request) at line 205, outside the try block: an
\* exception of the detector leaves process_meeting_request as it is
DetectResult(d) ==
    IF d = "throw"
    THEN [ok |-> FALSE, exc |-> Exc("LangDetectException", "detect", "", "py", {})]
    ELSE [ok |-> TRUE, lang |-> d]

\* process_meeting_request is called (at most limit times) and detects the
\* language; every local of the call starts fresh
Detect(limit, outcomes) ==
    /\ pc \in {"idle", "done"}
    /\ requests < limit
    /\ requests' = requests + 1
    /\ \E d \in outcomes :
          LET r == DetectResult(d)
          IN  /\ detected' = d
              /\ IF r.ok
                 THEN /\ lang' = r.lang
                      /\ pc' = "extract"
                      /\ outcome' = NoOutcome
                 ELSE /\ lang' = ""
                      /\ pc' = "done"
                      /\ outcome' = Uncaught(r.exc)
    /\ response' = NoResponse
    /\ meeting_info' = EmptyDraft
    /\ info' = NoInfo
    /\ tries' = 0
    /\ company_name' = <<>>
    /\ company_info' = None
    /\ create' = <<>>
    /\ entry_type' = Unbound
    /\ meet_link' = None
    /\ notion_page' = 0
    /\ log' = <<>>
    /\ UNCHANGED <<scheduler, external>>

\* ------------------------------------------------------------------ extraction
DEFAULT_DURATION == 30

\* int(meeting_info.get('duration', self.DEFAULT_DURATION))
DurationOf(v) ==
    CASE v.t = "absent" -> [ok |-> TRUE, n |-> DEFAULT_DURATION]
      [] v.t = "int" -> [ok |-> TRUE, n |-> v.n]
      [] OTHER -> [ok |-> FALSE, cls |-> "TypeError"]

ExtractionError(l, names) ==
    Exc("ValidationError", "_get_meeting_details", "", TemplateLang(l), names)

\* _get_meeting_details after the service call: resp is the service's answer
\* (an exception, text that is not JSON, or a JSON object)
GetMeetingDetailsResult(resp, l) ==
    IF resp.kind # "json"
    THEN [ok |-> FALSE, exc |-> ExtractionError(l, {})]
    ELSE IF resp.draft.datetime.t = "absent"
    THEN [ok |-> FALSE, exc |-> ExtractionError(l, {"datetime"})]   \* str(KeyError('datetime'))
    ELSE IF ~fromisoformat(resp.draft.datetime).ok
    THEN [ok |-> FALSE, exc |-> ExtractionError(l, {})]
    ELSE IF ~DurationOf(resp.draft.duration).ok
    THEN [ok |-> FALSE, exc |-> ExtractionError(l, {})]
    ELSE [ok |-> TRUE,
          mi |-> [resp.draft EXCEPT
                    !.datetime = isoformat(WithParisTz(fromisoformat(resp.draft.datetime))),
                    !.duration = IntVal(DurationOf(resp.draft.duration).n)]]

ExtractionResponses(drafts) ==
    {[kind |-> "exception"], [kind |-> "text"]} \cup {[kind |-> "json", draft |-> d] : d \in drafts}

GetMeetingDetails(drafts) ==
    /\ pc = "extract"
    /\ \E resp \in ExtractionResponses(drafts) :
          LET r == GetMeetingDetailsResult(resp, lang)
          IN  /\ response' = resp
              /\ Issue("extract", resp.kind # "exception", 0)
              /\ IF r.ok
                 THEN /\ meeting_info' = r.mi
                      /\ pc' = "check"
                      /\ UNCHANGED outcome
                 ELSE /\ Raise(r.exc)
                      /\ UNCHANGED meeting_info
    /\ UNCHANGED <<scheduler, external, requests, detected, lang, info, tries,
                   company_name, company_info, create, entry_type, meet_link,
                   notion_page>>

\* ------------------------------------------------------------------ missing fields
\* a pipeline that goes from gap filling straight to the resolver
GapPc_SkipsValidation(mi, got) ==
    IF mi.attendee_email.t = "absent" /\ got.attendee_email.t = "absent"
    THEN "gap_email"
    ELSE IF ~Truthy(mi.title) /\ got.title.t = "absent"
    THEN "gap_title"
    ELSE "query_customers"

\* where _get_missing_info goes next
GapPc(mi, got) ==
    IF mi.attendee_email.t = "absent" /\ got.attendee_email.t = "absent"
    THEN "gap_email"
    ELSE IF ~Truthy(mi.title) /\ got.title.t = "absent"
    THEN "gap_title"
    ELSE "validate"

\* meeting_info.update(additional_info)
Update(mi, got) ==
    [mi EXCEPT !.attendee_email = IF got.attendee_email.t = "absent" THEN @ ELSE got.attendee_email,
               !.title = IF got.title.t = "absent" THEN @ ELSE got.title]

\* line 216: gap filling only when something is missing and the session is
\* interactive
FillsGaps(missing, interactive) == missing # {} /\ interactive

\* lines 213-222: gap filling when interactive, a terminal error otherwise
CheckMissing ==
    /\ pc = "check"
    /\ IF FillsGaps(MissingFields(meeting_info), scheduler.interactive)
       THEN /\ pc' = GapPc(meeting_info, NoInfo)
            /\ UNCHANGED outcome
       ELSE IF MissingFields(meeting_info) # {}
       THEN Raise(Exc("ValidationError", "process_meeting_request", "", "en",
                      MissingFields(meeting_info)))
       ELSE /\ pc' = "validate"
            /\ UNCHANGED outcome
    /\ UNCHANGED <<scheduler, external, requests, detected, response, lang,
                   meeting_info, info, tries, company_name, company_info, create,
                   entry_type, meet_link, notion_page, log>>

\* _get_missing_info, the address loop: one answer of the operator
PromptEmail(emails) ==
    /\ pc = "gap_email"
    /\ \E typed \in emails :
          LET email == strip(typed)
          IN  IF EmailRegexMatch(email)
              THEN LET got == [info EXCEPT !.attendee_email = StrVal(email)]
                   IN  /\ Issue("prompt_email", TRUE, 0)
                       /\ info' = got
                       /\ pc' = GapPc(meeting_info, got)
                       /\ meeting_info' = IF GapPc(meeting_info, got) = "validate"
                                          THEN Update(meeting_info, got)
                                          ELSE meeting_info
                       /\ UNCHANGED tries
              ELSE /\ tries < MaxEmailTries
                   /\ Issue("prompt_email", FALSE, 0)
                   /\ tries' = tries + 1
                   /\ UNCHANGED <<info, pc, meeting_info>>
    /\ UNCHANGED <<scheduler, external, requests, detected, response, lang,
                   company_name, company_info, create, entry_type, meet_link,
                   notion_page, outcome>>

\* the default title; ASCII stands for the accented French text
DefaultTitle(l, company) ==
    IF l = "en" THEN <<"Meeting with ">> \o company ELSE <<"Reunion avec ">> \o company

\* _get_missing_info, the title prompt, then meeting_info.update(...)
PromptTitle(titles) ==
    /\ pc = "gap_title"
    /\ Issue("prompt_title", TRUE, 0)
    /\ \E typed \in titles :
          LET title == strip(typed)
              company == CompanyNameOf(meeting_info)
          IN  IF title # <<>> \/ company.ok
              THEN LET got == [info EXCEPT !.title =
                                  IF title # <<>> THEN StrVal(title)
                                  ELSE StrVal(DefaultTitle(lang, company.name))]
                   IN  /\ info' = got
                       /\ meeting_info' = Update(meeting_info, got)
                       /\ pc' = "validate"
                       /\ UNCHANGED outcome
              ELSE /\ Raise(Exc(company.cls, "_get_missing_info", "", "py", {}))
                   /\ UNCHANGED <<info, meeting_info>>
    /\ UNCHANGED <<scheduler, external, requests, detected, response, lang, tries,
                   company_name, company_info, create, entry_type, meet_link,
                   notion_page>>

\* validate_meeting_info, then the candidate name of line 228
Validate ==
    /\ pc = "validate"
    /\ LET v == validate_meeting_info(meeting_info)
       IN  IF v.ok
           THEN /\ company_name' = CompanyNameOf(meeting_info).name
                /\ pc' = "query_customers"
                /\ UNCHANGED outcome
           ELSE /\ Raise(v.exc)
                /\ UNCHANGED company_name
    /\ UNCHANGED <<scheduler, external, requests, detected, response, lang,
                   meeting_info, info, tries, company_info, create, entry_type,
                   meet_link, notion_page, log>>

\* ------------------------------------------------------------------ resolver
\* a pipeline that opens the creation dialogue whatever the session mode
AfterResolve_AnyMode(ci, interactive) ==
    IF ci.t # "info" THEN "ask_create" ELSE "create_event"

\* a pipeline that queries the stores again when nothing was found
AfterResolve_Requeries(ci, interactive) ==
    IF ci.t # "info" THEN "query_customers" ELSE "create_event"

\* lines 233-234: the creation dialogue only when nothing was found and the
\* session is interactive
AfterResolve(ci, interactive) ==
    IF ci.t # "info" /\ interactive THEN "ask_create" ELSE "create_event"

\* what an except clause does with the exception e it caught
Swallowed(v) == [raised |-> FALSE, value |-> v]
Reraised(e) == [raised |-> TRUE, exc |-> e]

StoreError(origin) == Exc("APIResponseError", origin, "", "py", {})

\* a resolver whose customers block lets the exception through
OnCustomersQueryError_Propagates(e) == Reraised(e)

\* the except clause of the customers query (lines 468-469): log, go on to
\* the leads store
OnCustomersQueryError(e) == Swallowed(None)

\* the except clause of the leads query (lines 492-496): log, return None
OnLeadsQueryError(e) == Swallowed(None)

\* what a store query yields: an exception, or the matching records
QueryOutcomes(store, variations) ==
    {[ok |-> FALSE], [ok |-> TRUE, results |-> QueryResults(store, variations)]}

Variations == company_variations(company_name, meeting_info.attendee_email.s)

\* find_company_in_database up to the end of the customers block
QueryCustomers ==
    /\ pc = "query_customers"
    /\ \E q \in QueryOutcomes(customers, Variations) :
          IF ~q.ok
          THEN LET h == OnCustomersQueryError(StoreError("find_company_in_database"))
               IN  /\ Issue("query_customers", FALSE, 0)
                   /\ IF h.raised THEN Raise(h.exc)
                      ELSE pc' = "query_leads" /\ UNCHANGED outcome
                   /\ UNCHANGED company_info
          ELSE /\ Issue("query_customers", TRUE, Len(q.results))
               /\ UNCHANGED outcome
               /\ IF q.results # <<>>
                  THEN /\ company_info' = Info(S_customer, q.results[1])
                       /\ pc' = AfterResolve(Info(S_customer, q.results[1]),
                                             scheduler.interactive)
                  ELSE /\ pc' = "query_leads"
                       /\ UNCHANGED company_info
    /\ UNCHANGED <<scheduler, external, requests, detected, response, lang,
                   meeting_info, info, tries, company_name, create, entry_type,
                   meet_link, notion_page>>

\* find_company_in_database, the leads block and the final return None
QueryLeads ==
    /\ pc = "query_leads"
    /\ \E q \in QueryOutcomes(leads, Variations) :
          IF ~q.ok
          THEN LET h == OnLeadsQueryError(StoreError("find_company_in_database"))
               IN  /\ Issue("query_leads", FALSE, 0)
                   /\ IF h.raised THEN Raise(h.exc)
                      ELSE pc' = AfterResolve(h.value, scheduler.interactive)
                           /\ UNCHANGED outcome
                   /\ UNCHANGED company_info
          ELSE /\ Issue("query_leads", TRUE, Len(q.results))
               /\ UNCHANGED outcome
               /\ IF q.results # <<>>
                  THEN /\ company_info' = Info(S_lead, q.results[1])
                       /\ pc' = AfterResolve(Info(S_lead, q.results[1]),
                                             scheduler.interactive)
                  ELSE /\ pc' = AfterResolve(None, scheduler.interactive)
                       /\ UNCHANGED company_info
    /\ UNCHANGED <<scheduler, external, requests, detected, response, lang,
                   meeting_info, info, tries, company_name, create, entry_type,
                   meet_link, notion_page>>

\* ------------------------------------------------------------------ creation dialogue
\* the answers for which the branch of the detected language asks the type
\* (lines 238 and 244)
AsksType(l, answer) ==
    IF l = "fr" THEN answer \in {S_oui, S_o} ELSE answer \in {S_yes, S_y}

\* line 248
ConfirmsCreation(answer) == answer \in {S_yes, S_y, S_oui, S_o}

\* lines 235-248: the creation prompt
AskCreate(answers) ==
    /\ pc = "ask_create"
    /\ Issue("prompt_create", TRUE, 0)
    /\ \E typed \in answers :
          LET answer == lower(typed)
          IN  /\ create' = answer
              /\ IF AsksType(lang, answer)
                 THEN /\ pc' = "ask_type"
                      /\ UNCHANGED outcome
                 ELSE IF ConfirmsCreation(answer)
                 THEN \* entry_type was never assigned: UnboundLocalError at line 249
                      Raise(Exc("UnboundLocalError", "process_meeting_request", "", "py", {}))
                 ELSE /\ pc' = "create_event"
                      /\ UNCHANGED outcome
    /\ UNCHANGED <<scheduler, external, requests, detected, response, lang,
                   meeting_info, info, tries, company_name, company_info,
                   entry_type, meet_link, notion_page>>

\* lines 239-240 and 245-246
EntryTypeOf(l, type_choice) ==
    IF l = "fr"
    THEN (IF type_choice = S_client THEN S_customer ELSE S_lead)
    ELSE type_choice

AskType(types) ==
    /\ pc = "ask_type"
    /\ Issue("prompt_type", TRUE, 0)
    /\ \E typed \in types :
          entry_type' = StrVal(EntryTypeOf(lang, lower(typed)))
    /\ pc' = IF ConfirmsCreation(create) THEN "create_company" ELSE "create_event"
    /\ UNCHANGED <<scheduler, external, requests, detected, response, lang,
                   meeting_info, info, tries, company_name, company_info, create,
                   meet_link, notion_page, outcome>>

\* a create_company_entry that lets the store's exception through
OnCreateCompanyError_Propagates(e) == Reraised(e)

\* create_company_entry's except clause (lines 196-198): log, return None
OnCreateCompanyError(e) == Swallowed(None)

\* create_company_entry: the store is chosen by entry_type == 'customer'
CreateCompanyEntry ==
    /\ pc = "create_company"
    /\ \E fails \in BOOLEAN :
          IF fails
          THEN LET h == OnCreateCompanyError(StoreError("create_company_entry"))
               IN  /\ Issue("create_record", FALSE, 0)
                   /\ IF h.raised
                      THEN Raise(h.exc) /\ UNCHANGED company_info
                      ELSE /\ company_info' = h.value
                           /\ pc' = "create_event"
                           /\ UNCHANGED outcome
                   /\ UNCHANGED <<customers, leads>>
          ELSE /\ Issue("create_record", TRUE, 0)
               /\ pc' = "create_event"
               /\ UNCHANGED outcome
               /\ IF entry_type.s = S_customer
                  THEN LET new == Rec(Len(customers) + 1, company_name, StrVal(company_name))
                       IN  /\ customers' = Append(customers, new)
                           /\ company_info' = Info(entry_type.s, new)
                           /\ UNCHANGED leads
                  ELSE LET new == Rec(Len(leads) + 1, company_name, StrVal(company_name))
                       IN  /\ leads' = Append(leads, new)
                           /\ company_info' = Info(entry_type.s, new)
                           /\ UNCHANGED customers
    /\ UNCHANGED <<scheduler, notes, calendar, requests, detected, response, lang,
                   meeting_info, info, tries, company_name, create, entry_type,
                   meet_link, notion_page>>

\* ------------------------------------------------------------------ commit
\* a or b on an optional text value
OrElse(v, fallback) == IF Truthy(v) THEN v.s ELSE fallback

CommitError(l, step) ==
    Exc("ValidationError", "_create_meeting_entries", step, TemplateLang(l), {})

\* start_time of _create_meeting_entries (lines 375-378)
StartTime(mi) == WithParisTz(fromisoformat(mi.datetime))

\* display_company_name (lines 381-387)
DisplayCompanyName(mi, ci) == OrElse(get_company_name_from_info(ci), CompanyNameOf(mi).name)

\* the event body built by create_meet_link (lines 546-576)
EventBody(mi, ci) ==
    [summary |-> OrElse(StrVal(DisplayCompanyName(mi, ci)), <<"Meeting">>) \o <<" <> Vincent">>,
     start |-> isoformat(StartTime(mi)),
     end |-> PlusMinutes(StartTime(mi), mi.duration.n),
     attendee |-> mi.attendee_email.s]

\* the conference link of the n-th event of the calendar
Url(n) == [t |-> "url", n |-> n]

\* what events().insert(...).execute() may do: fail, or return the event
\* with or without a hangoutLink
InsertOutcomes == {"error", "event", "event_without_link"}

\* a commit stage that logs the calendar failure and goes on
OnInsertError_Swallows(l) == Swallowed(None)

\* create_meet_link's except clause (lines 594-596) logs and re-raises; the
\* except clause of _create_meeting_entries turns it into a ValidationError
OnInsertError(l) == Reraised(CommitError(l, "create_meet_link"))

\* _create_meeting_entries up to the return of create_meet_link
CreateMeetLink ==
    /\ pc = "create_event"
    /\ \E r \in InsertOutcomes :
          IF r = "error"
          THEN LET h == OnInsertError(lang)
               IN  /\ Issue("create_event", FALSE, 0)
                   /\ IF h.raised THEN Raise(h.exc)
                      ELSE pc' = "create_page" /\ UNCHANGED outcome
                   /\ UNCHANGED <<calendar, meet_link>>
          ELSE LET link == IF r = "event" THEN Url(Len(calendar) + 1) ELSE None
               IN  /\ Issue("create_event", TRUE, 0)
                   /\ calendar' = Append(calendar,
                                         [body |-> EventBody(meeting_info, company_info),
                                          hangoutLink |-> link])
                   /\ meet_link' = link
                   /\ pc' = "create_page"
                   /\ UNCHANGED outcome
    /\ UNCHANGED <<scheduler, customers, leads, notes, requests, detected, response,
                   lang, meeting_info, info, tries, company_name, company_info,
                   create, entry_type, notion_page>>

\* relation_key of create_meeting_notes_page (lines 524-528)
RelationOf(ci) ==
    IF ci.t = "info"
    THEN [t |-> "relation",
          key |-> IF ci.type = S_customer THEN "Customer" ELSE "Lead",
          id |-> ci.data.id]
    ELSE None

\* the properties of the page create_meeting_notes_page asks for
PageProperties(mi, ci) ==
    [Name |-> <<"Meeting with ">> \o OrElse(get_company_name_from_info(ci), mi.title.s),
     Status |-> "Planned",
     MeetingDate |-> isoformat(StartTime(mi)),
     Relation |-> RelationOf(ci),
     GoogleMeet |-> None]

\* a commit stage that logs a failed page creation and goes on
OnPageCreateError_Swallows(l) == Swallowed(None)

\* create_meeting_notes_page's except clause (lines 540-542) logs and
\* re-raises; _create_meeting_entries turns it into a ValidationError
OnPageCreateError(l) == Reraised(CommitError(l, "create_meeting_notes_page"))

CreateMeetingNotesPage ==
    /\ pc = "create_page"
    /\ \E fails \in BOOLEAN :
          IF fails
          THEN LET h == OnPageCreateError(lang)
               IN  /\ Issue("create_page", FALSE, 0)
                   /\ IF h.raised THEN Raise(h.exc)
                      ELSE pc' = "update_page" /\ UNCHANGED outcome
                   /\ UNCHANGED <<notes, notion_page>>
          ELSE /\ Issue("create_page", TRUE, 0)
               /\ notes' = Append(notes, [id |-> Len(notes) + 1,
                                          properties |-> PageProperties(meeting_info, company_info)])
               /\ notion_page' = Len(notes) + 1
               /\ pc' = "update_page"
               /\ UNCHANGED outcome
    /\ UNCHANGED <<scheduler, customers, leads, calendar, requests, detected, response,
                   lang, meeting_info, info, tries, company_name, company_info,
                   create, entry_type, meet_link>>

\* the dict process_meeting_request returns (lines 254-260)
Result(link, page, mi, ci, l) ==
    [status |-> "returned", meet_link |-> link, notion_page_id |-> page,
     meeting_info |-> mi, company_info |-> ci, language |-> l]

\* a commit stage that ignores a failed link patch
OnPageUpdateError_Swallows(l) == Swallowed(None)

\* a failure of pages.update (lines 406-411) reaches the except clause of
\* _create_meeting_entries
OnPageUpdateError(l) == Reraised(CommitError(l, "pages.update"))

\* pages.update with the Meet link, then both returns
UpdatePage ==
    /\ pc = "update_page"
    /\ \E fails \in BOOLEAN :
          IF fails
          THEN LET h == OnPageUpdateError(lang)
               IN  /\ Issue("update_page", FALSE, 0)
                   /\ IF h.raised THEN Raise(h.exc)
                      ELSE /\ pc' = "done"
                           /\ outcome' = Result(meet_link, notion_page, meeting_info,
                                                 company_info, lang)
                   /\ UNCHANGED notes
          ELSE /\ Issue("update_page", TRUE, 0)
               /\ notes' = [notes EXCEPT ![notion_page].properties.GoogleMeet = meet_link]
               /\ outcome' = Result(meet_link, notion_page, meeting_info, company_info, lang)
               /\ pc' = "done"
    /\ UNCHANGED <<scheduler, customers, leads, calendar, requests, detected, response,
                   lang, meeting_info, info, tries, company_name, company_info,
                   create, entry_type, meet_link, notion_page>>

\* ------------------------------------------------------------------ specifications
\* main() reads one request and calls process_meeting_request once
RequestsPerRun == 1

\* one run of the program: any utterance, any answer of the services and of
\* the operator
Next ==
    \/ Detect(RequestsPerRun, DetectOutcomes)
    \/ GetMeetingDetails(Drafts)
    \/ CheckMissing
    \/ PromptEmail(OperatorEmails)
    \/ PromptTitle(OperatorTitles)
    \/ Validate
    \/ QueryCustomers
    \/ QueryLeads
    \/ AskCreate(OperatorAnswers)
    \/ AskType(OperatorTypes)
    \/ CreateCompanyEntry
    \/ CreateMeetLink
    \/ CreateMeetingNotesPage
    \/ UpdatePage

Spec == Init /\ [][Next]_vars

\* one instance serving MaxRequests requests one after the other, over a
\* narrower choice of utterances and answers
SerialDrafts ==
    [title : {None, StrVal(SyncTitle)}, datetime : {Iso(14, 30, "")}, duration : {Absent},
     attendee_email : {Absent, StrVal(NoAtEmail), StrVal(GoodEmail)}, company_name : {None}]

InitSerial == Init /\ customers = <<>> /\ leads = <<>>

NextSerial ==
    \/ Detect(MaxRequests, {"en", "fr", "de"})
    \/ GetMeetingDetails(SerialDrafts)
    \/ CheckMissing
    \/ PromptEmail({NoDotEmail, GoodEmail})
    \/ PromptTitle({<<>>, SyncTitle})
    \/ Validate
    \/ QueryCustomers
    \/ QueryLeads
    \/ AskCreate({S_yes, <<"no">>})
    \/ AskType({S_customer, S_lead})
    \/ CreateCompanyEntry
    \/ CreateMeetLink
    \/ CreateMeetingNotesPage
    \/ UpdatePage

SpecSerial == InitSerial /\ [][NextSerial]_vars

\* validate_meeting_info called on its own with any dict: it returns None
\* or raises, and the exception reaches the caller as it is
Returned(v) == [status |-> "returned", value |-> v]

CallValidateMeetingInfo(intents) ==
    /\ pc = "idle"
    /\ \E mi \in intents :
          LET v == validate_meeting_info(mi)
          IN  /\ meeting_info' = mi
              /\ outcome' = IF v.ok THEN Returned(None) ELSE Uncaught(v.exc)
    /\ pc' = "done"
    /\ UNCHANGED <<scheduler, external, requests, detected, response, lang, info,
                   tries, company_name, company_info, create, entry_type, meet_link,
                   notion_page, log>>

NextValidator == CallValidateMeetingInfo(Drafts)

SpecValidator == Init /\ [][NextValidator]_vars

\* ------------------------------------------------------------------ properties
Issued(name) == \E i \in 1..Len(log) : log[i].call = name
Failed(name) == \E i \in 1..Len(log) : log[i].call = name /\ ~log[i].ok
Succeeded(name) == \E i \in 1..Len(log) : log[i].call = name /\ log[i].ok
Matched(name) == \E i \in 1..Len(log) : log[i].call = name /\ log[i].ok /\ log[i].n >= 1

\* the error the commit stage raises: the program's one exception class,
\* raised by _create_meeting_entries and re-wrapped by the top level
IsCommitError(o) ==
    /\ o.status = "raised"
    /\ o.cls = "ValidationError"
    /\ o.origin = "_create_meeting_entries"

\* C1: when the calendar-event creation fails, no records page is created
\* and no page update is issued in that request, and process_meeting_request
\* raises the commit-stage error to its caller.
C1_CalendarFailureAborts ==
    Failed("create_event") =>
        /\ ~Issued("create_page")
        /\ ~Issued("update_page")
        /\ notes = <<>>
        /\ pc = "done"
        /\ IsCommitError(outcome)
        /\ outcome.step = "create_meet_link"

C1_Witness ==
    /\ Failed("create_event")
    /\ Succeeded("extract")
    /\ validate_meeting_info(meeting_info).ok
    /\ pc = "done"

\* C2: when the calendar event was created and then the page creation or
\* the link patch fails, the request ends with the commit-stage error, the
\* event of this request is still in the calendar (nothing is issued
\* against the calendar after its creation), and after a failed patch the
\* page exists with its Google Meet field unset.
C2_NoRollback ==
    (Succeeded("create_event") /\ (Failed("create_page") \/ Failed("update_page"))) =>
        /\ pc = "done"
        /\ IsCommitError(outcome)
        /\ Len(calendar) = 1
        /\ calendar[1].body = EventBody(meeting_info, company_info)
        /\ log[Len(log)].call \in {"create_page", "update_page"}
        /\ \A i \in 1..Len(log) :
              log[i].call = "create_event" => \A j \in (i + 1)..Len(log) :
                  log[j].call \in {"create_page", "update_page"}
        /\ Failed("create_page") => notes = <<>>
        /\ Failed("update_page") =>
              /\ Len(notes) = 1
              /\ notes[notion_page].properties.GoogleMeet = None

C2_Witness ==
    /\ Succeeded("create_event")
    /\ Succeeded("create_page")
    /\ Failed("update_page")
    /\ Len(notes) = 1

\* the calls that reach the records stores, the calendar or the notes store
StoreOrCalendarCalls ==
    {"query_customers", "query_leads", "create_record", "create_event",
     "create_page", "update_page"}

\* C3: in non-interactive mode a draft with a missing title, datetime or
\* attendee_email ends in a ValidationError whose message names each missing
\* field, with no call to the stores or the calendar.
C3_MissingFieldsNamed ==
    (/\ pc = "done"
     /\ ~scheduler.interactive
     /\ response.kind = "json"
     /\ MissingFields(response.draft) # {}) =>
        /\ outcome.status = "raised"
        /\ outcome.cls = "ValidationError"
        /\ MissingFields(response.draft) \subseteq outcome.names
        /\ \A i \in 1..Len(log) : log[i].call \notin StoreOrCalendarCalls

\* C4: a failed customers query followed by a leads query that returns
\* records resolves to the first lead; a customers match is returned without
\* the leads store being asked; no query exception leaves the resolver.
C4_StoreFailureIsolated ==
    /\ (Failed("query_customers") /\ Matched("query_leads")) =>
          company_info = Info(S_lead, QueryResults(leads, Variations)[1])
    /\ Matched("query_customers") =>
          /\ company_info = Info(S_customer, QueryResults(customers, Variations)[1])
          /\ ~Issued("query_leads")
    /\ (Failed("query_customers") \/ Failed("query_leads")) =>
          ~(outcome.status = "raised" /\ outcome.origin = "find_company_in_database")
    /\ (Failed("query_leads") /\ pc # "done") => pc \notin {"query_customers", "query_leads"}

C4_Witness ==
    /\ Failed("query_customers")
    /\ Matched("query_leads")
    /\ company_info.t = "info"
    /\ company_info.type = S_lead

\* C5: in interactive mode, when the operator confirmed the creation and the
\* record-creation call fails, the request goes on to the commit stage
\* without a counterparty and, if the calendar and page calls succeed,
\* returns a result whose company_info is None.
C5_CreationFailureDegrades ==
    (scheduler.interactive /\ Failed("create_record")) =>
        /\ company_info = None
        /\ pc \in {"create_event", "create_page", "update_page", "done"}
        /\ pc = "done" => Issued("create_event")
        /\ outcome.status = "raised" => IsCommitError(outcome)
        /\ (Succeeded("create_event") /\ Succeeded("create_page") /\ Succeeded("update_page")) =>
              /\ outcome.status = "returned"
              /\ outcome.company_info = None

C5_Witness ==
    /\ scheduler.interactive
    /\ ConfirmsCreation(create)
    /\ Failed("create_record")
    /\ outcome.status = "returned"

\* C6: a record is created only after an affirmative answer to the creation
\* prompt of the same request; after any answer that is not an affirmative
\* answer of the prompt's language no record is created, no error is raised
\* by the dialogue, and the request reaches the commit stage without a
\* counterparty.
C6_OnlyOnConfirmation ==
    /\ Issued("create_record") => (Issued("prompt_create") /\ AsksType(lang, create))
    /\ (Issued("prompt_create") /\ ~AsksType(lang, create)) =>
          /\ ~Issued("create_record")
          /\ company_info = None
          /\ pc \in {"create_event", "create_page", "update_page", "done"}
          /\ pc = "done" => Issued("create_event")

PromptCalls == {"prompt_email", "prompt_title", "prompt_create", "prompt_type"}

\* a draft that states title, time, duration and a well-formed address
CompleteValid(d) ==
    /\ Truthy(d.title)
    /\ d.datetime.t = "iso"
    /\ d.duration.t = "int"
    /\ d.attendee_email.t = "str"
    /\ EmailRegexMatch(d.attendee_email.s)

\* C7: in non-interactive mode no prompt, no decision-service call and no
\* record creation occurs; a complete, valid draft that matches nothing in
\* either store returns a result with company_info None when the calendar
\* and page calls succeed.
C7_NonInteractive ==
    ~scheduler.interactive =>
        /\ \A i \in 1..Len(log) :
              log[i].call \notin (PromptCalls \cup {"decision", "create_record"})
        /\ (/\ pc = "done"
            /\ response.kind = "json"
            /\ CompleteValid(response.draft)
            /\ company_info = None
            /\ ~Failed("create_event")
            /\ ~Failed("create_page")
            /\ ~Failed("update_page")) =>
              /\ outcome.status = "returned"
              /\ outcome.company_info = None

C7_Witness ==
    /\ ~scheduler.interactive
    /\ Issued("query_customers")
    /\ Issued("query_leads")
    /\ outcome.status = "returned"
    /\ outcome.company_info = None

\* C8: the locale tag returned by process_meeting_request is en or fr
\* whatever the detection library answered.
C8_LocaleSupported ==
    (pc = "done" /\ outcome.status = "returned") => outcome.language \in {"en", "fr"}

\* C9: when language detection throws, the locale is en, the request goes on
\* to extraction and no error of the detector reaches the caller.
C9_DetectionFailureFallsBack ==
    detected = "throw" =>
        /\ lang = "en"
        /\ pc # "done" \/ Issued("extract")
        /\ ~(outcome.status = "raised" /\ outcome.origin = "detect")

\* the supported locale a detected code stands for, en being the fallback
CoercedLocale(l) == IF l \in {"en", "fr"} THEN l ELSE "en"

\* a required step of the current request failed: extraction, validation,
\* calendar creation or records-page creation
RequiredStepFailed ==
    \/ response.kind # "none" /\ ~GetMeetingDetailsResult(response, lang).ok
    \/ /\ response.kind # "none"
       /\ GetMeetingDetailsResult(response, lang).ok
       /\ pc = "done"
       /\ ~validate_meeting_info(meeting_info).ok
    \/ Failed("create_event")
    \/ Failed("create_page")

\* the locals of a call of process_meeting_request that has just started
FreshLocals ==
    /\ response = NoResponse
    /\ meeting_info = EmptyDraft
    /\ info = NoInfo
    /\ tries = 0
    /\ company_name = <<>>
    /\ company_info = None
    /\ create = <<>>
    /\ entry_type = Unbound
    /\ meet_link = None
    /\ notion_page = 0
    /\ log = <<>>

KeepsWallClock(t, d) ==
    /\ t.t = "iso"
    /\ t.h = d.h
    /\ t.m = d.m
    /\ t.off # ""
    /\ t.off = (IF d.off = "" THEN ParisOffset ELSE d.off)

\* C11: for every draft timestamp with hour h and minute m, with or without
\* a UTC offset, the start time that leaves the extractor, the start of the
\* calendar event and the meeting date of the records page have hour h and
\* minute m and carry an explicit UTC offset.
C11_WallClockKept ==
    (response.kind = "json" /\ GetMeetingDetailsResult(response, lang).ok) =>
        /\ KeepsWallClock(meeting_info.datetime, response.draft.datetime)
        /\ \A i \in 1..Len(calendar) :
              KeepsWallClock(calendar[i].body.start, response.draft.datetime)
        /\ \A i \in 1..Len(notes) :
              KeepsWallClock(notes[i].properties.MeetingDate, response.draft.datetime)

\* an offset-less draft timestamp reached the calendar and the records page
C11_Witness ==
    /\ response.kind = "json"
    /\ response.draft.datetime = Iso(14, 30, "")
    /\ Len(calendar) = 1
    /\ Len(notes) = 1
    /\ calendar[1].body.start = Iso(14, 30, ParisOffset)
    /\ notes[1].properties.MeetingDate = Iso(14, 30, ParisOffset)

\* C12: the records page of a request is titled "Meeting with " followed by
\* the display name (the resolved counterparty's name, else the hinted or
\* domain-derived company name), the same display name that opens the title
\* of the calendar event of that request.
C12_PageTitledWithDisplayName ==
    \A i \in 1..Len(notes) :
        /\ notes[i].properties.Name =
              <<"Meeting with ">> \o DisplayCompanyName(meeting_info, company_info)
        /\ calendar[i].body.summary =
              DisplayCompanyName(meeting_info, company_info) \o <<" <> Vincent">>

\* the required fields of an intent that fail a check of the validator:
\* missing, an address that is not well formed, a timestamp that does not parse
Violates(mi, f) ==
    \/ ~Truthy(mi[f])
    \/ f = "attendee_email" /\ mi[f].t = "str" /\ ~EmailRegexMatch(mi[f].s)
    \/ f = "datetime" /\ ~fromisoformat(mi[f]).ok

Violations(mi) == {f \in RequiredFields : Violates(mi, f)}

\* C13: the validation error validate_meeting_info raises for an intent
\* names every missing or invalid field of that intent, not only the field
\* of the first violated check.
C13_NamesEveryField ==
    (/\ pc = "done"
     /\ outcome.status = "raised"
     /\ outcome.origin = "validate_meeting_info") =>
        Violations(meeting_info) \subseteq outcome.names

ToSet(s) == {s[i] : i \in 1..Len(s)}

\* the lookup variants of a candidate name and an address: the name, the
\* name lower-cased and upper-cased, the capitalized first label of the
\* address's domain and the capitalized full domain
LookupVariants(name, email) ==
    {name, lower(name), upper(name),
     capitalize(SplitFirst(SplitSecond(email, "@"), ".")),
     capitalize(SplitSecond(email, "@"))}

\* the request has entered the resolver
Resolving ==
    \/ pc \in {"query_customers", "query_leads", "ask_create", "ask_type",
               "create_company", "create_event", "create_page", "update_page"}
    \/ pc = "done" /\ Issued("query_customers")

\* C14: once the candidate name is derived and the variants are built,
\* deriving the name again from the intent gives the same name and building
\* the variants again gives the same set, which is the set of the five
\* lookup variants; the resolver never modifies the intent.
C14_VariantsIdempotent ==
    /\ [](Resolving =>
            /\ CompanyNameOf(meeting_info).ok
            /\ CompanyNameOf(meeting_info).name = company_name
            /\ ToSet(company_variations(CompanyNameOf(meeting_info).name,
                                        meeting_info.attendee_email.s)) = ToSet(Variations)
            /\ ToSet(Variations) = LookupVariants(company_name, meeting_info.attendee_email.s))
    /\ [][(pc = "validate" \/ Resolving) => meeting_info' = meeting_info]_vars

\* the variants of a hinted name, all five distinct, were used for both
\* store queries
C14_Witness ==
    /\ Truthy(meeting_info.company_name)
    /\ Issued("query_customers")
    /\ Issued("query_leads")
    /\ Cardinality(ToSet(Variations)) = 5

\* in the current request a successful call of `before` precedes the i-th call
Preceded(i, before) == \E j \in 1..(i - 1) : log[j].call = before /\ log[j].ok

\* C15: in the commit stage the page creation is issued only after the
\* calendar-event creation has returned successfully, and the link patch is
\* issued only after the page creation has returned successfully and
\* targets the page created in the same request (and no other page).
C15_CommitOrder ==
    /\ [](\A i \in 1..Len(log) :
            /\ log[i].call = "create_page" => Preceded(i, "create_event")
            /\ log[i].call = "update_page" => Preceded(i, "create_page"))
    /\ [](pc = "update_page" =>
            /\ Succeeded("create_page")
            /\ notion_page = Len(notes)
            /\ notion_page >= 1
            /\ notes[notion_page].id = notion_page)
    /\ [][(pc = "create_page" /\ notes' # notes) =>
            /\ notes' = Append(notes, notes'[Len(notes')])
            /\ notion_page' = notes'[Len(notes')].id]_vars
    /\ [][(pc = "update_page" /\ notes' # notes) =>
            /\ Len(notes') = Len(notes)
            /\ \A i \in 1..Len(notes) : i # notion_page => notes'[i] = notes[i]]_vars

\* the second request of an instance patched its own page, the second of
\* the notes store
C15_Witness ==
    /\ requests = 2
    /\ Succeeded("create_event")
    /\ Succeeded("create_page")
    /\ Succeeded("update_page")
    /\ notion_page = 2
    /\ Len(notes) = 2
    /\ notes[2].properties.GoogleMeet = meet_link
    /\ meet_link = Url(Len(calendar))

\* C16: in interactive mode, when neither store yields a match, the decision
\* service is called before the operator is asked about record creation
\* (and the operator is asked only after a call that recommended creation).
\* process_meeting_request goes from find_company_in_database straight to
\* the creation prompt; should_create_company, which consults the service,
\* is called by _handle_company_info alone, which nothing calls, so no
\* request logs a "decision" call.
C16_DecisionBeforePrompt ==
    \A i \in 1..Len(log) :
        log[i].call = "prompt_create" => Preceded(i, "decision")

\* C17: in interactive mode, for a draft with a required field missing (key
\* absent, null or empty), gap filling prompts for each such field and the
\* intent the validator then re-checks has every required field present.
C17_GapsFilled ==
    (/\ scheduler.interactive
     /\ response.kind = "json"
     /\ MissingFields(response.draft) # {}
     /\ pc = "validate") =>
        /\ MissingFields(meeting_info) = {}
        /\ "attendee_email" \in MissingFields(response.draft) => Succeeded("prompt_email")
        /\ "title" \in MissingFields(response.draft) => Issued("prompt_title")

\* the default title for a supported locale
GeneratedTitle(l, company) ==
    IF l = "fr" THEN <<"Reunion avec ">> \o company ELSE <<"Meeting with ">> \o company

\* the operator answered the title prompt with empty input: the prompt was
\* issued and no typed title was stored
EmptyTitleSubmitted ==
    /\ Issued("prompt_title")
    /\ info.title.t = "absent" \/ info.title.s \notin {strip(t) : t \in OperatorTitles}

\* C18: when the title is missing and the operator submits empty input at
\* the title prompt, no error is raised and the title becomes the generated
\* default for the hint or the domain-derived company name, also when the
\* address was missing from the draft and was obtained from the operator in
\* the same gap-filling pass.
C18_DefaultTitle ==
    (Succeeded("prompt_email") /\ EmptyTitleSubmitted /\ lang \in {"en", "fr"}) =>
        /\ ~(outcome.status = "raised" /\ outcome.origin = "_get_missing_info")
        /\ info.title = StrVal(GeneratedTitle(lang, CompanyNameOf(Update(meeting_info, info)).name))
        /\ meeting_info.title = info.title

\* the record r of a store matches one of the variants
MatchesAny(r, variations) ==
    \E i \in 1..Len(variations) : Contains(r.title, variations[i])

HasMatch(store, variations) ==
    \E i \in 1..Len(store) : MatchesAny(store[i], variations)

\* the first record of the store, in the store's order, that matches
FirstMatch(store, variations) ==
    store[CHOOSE i \in 1..Len(store) :
              /\ MatchesAny(store[i], variations)
              /\ \A j \in 1..(i - 1) : ~MatchesAny(store[j], variations)]

\* C19: when the customers query returns records the resolver returns the
\* first of them with kind customer, whatever the leads store holds, and
\* does not query the leads store; the leads store is queried only after a
\* customers query that failed or returned nothing, and its first record is
\* then returned with kind lead.
C19_CustomersBeforeLeads ==
    /\ Matched("query_customers") =>
          /\ company_info = Info(S_customer, FirstMatch(customers, Variations))
          /\ ~Issued("query_leads")
    /\ \A i \in 1..Len(log) :
          log[i].call = "query_leads" =>
              /\ i > 1
              /\ log[i - 1].call = "query_customers"
              /\ ~log[i - 1].ok \/ log[i - 1].n = 0
    /\ Matched("query_leads") =>
          company_info = Info(S_lead, FirstMatch(leads, Variations))

\* a customers match was returned although the leads store held a match too
C19_Witness ==
    /\ Matched("query_customers")
    /\ company_info.t = "info"
    /\ company_info.type = S_customer
    /\ HasMatch(leads, Variations)
    /\ pc = "done"

\* C20: the check applied right after extraction reports a problem exactly
\* when validate_meeting_info rejects the same intent.
C20_SameValidator ==
    pc = "check" =>
        ((MissingFields(meeting_info) # {}) <=> ~validate_meeting_info(meeting_info).ok)

\* C21: every counterparty record the pipeline carries, found or newly
\* created whatever the operator typed as the type, has kind customer or
\* lead; the records page has a relation to it exactly when a counterparty
\* is present, through the Customer field for a customer and the Lead field
\* for a lead; a created record lives in the store of its kind.
C21_KindCustomerOrLead ==
    /\ company_info.t = "info" => company_info.type \in {S_customer, S_lead}
    /\ \A i \in 1..Len(notes) :
          LET rel == notes[i].properties.Relation
          IN  /\ (rel.t = "relation") <=> (company_info.t = "info")
              /\ rel.t = "relation" =>
                    /\ rel.id = company_info.data.id
                    /\ rel.key = (IF company_info.type = S_customer THEN "Customer" ELSE "Lead")
    /\ (Succeeded("create_record") /\ company_info.t = "info") =>
          IF company_info.type = S_customer
          THEN customers # <<>> /\ customers[Len(customers)] = company_info.data
          ELSE leads # <<>> /\ leads[Len(leads)] = company_info.data

\* C22: whenever process_meeting_request returns, the conference URL of the
\* result is a URL, the one returned with the calendar event created in
\* this request, and it is the value of the link field of the page whose id
\* the result carries.
C22_ResultCarriesTheLink ==
    (pc = "done" /\ outcome.status = "returned") =>
        /\ outcome.meet_link.t = "url"
        /\ calendar # <<>>
        /\ outcome.meet_link = calendar[Len(calendar)].hangoutLink
        /\ outcome.notion_page_id \in 1..Len(notes)
        /\ notes[outcome.notion_page_id].properties.GoogleMeet = outcome.meet_link

\* the duration a draft asks for: its own when it states one, else the default
ExpectedDuration(d) == IF d.duration.t = "int" THEN d.duration.n ELSE DEFAULT_DURATION

\* C23: a draft with a parseable timestamp whose duration key is absent or
\* null does not fail extraction and resolves to 30 minutes; the end of the
\* calendar event is its start plus the resolved duration (the stated one
\* when the draft states a duration).
C23_DefaultDuration ==
    (/\ response.kind = "json"
     /\ response.draft.datetime.t = "iso"
     /\ response.draft.duration.t \in {"absent", "none", "int"}) =>
        /\ GetMeetingDetailsResult(response, lang).ok
        /\ meeting_info.duration = IntVal(ExpectedDuration(response.draft))
        /\ \A i \in 1..Len(calendar) :
              calendar[i].body.end =
                  PlusMinutes(StartTime(meeting_info), ExpectedDuration(response.draft))

\* the current request has called a store, the calendar or the notes store
CalledOut == \E i \in 1..Len(log) : log[i].call \in StoreOrCalendarCalls

\* C24: no store query, record creation, event creation, page creation or
\* page update is issued before the intent has passed validation (title,
\* datetime and attendee_email present, address well formed, timestamp
\* parseable); an intent that fails validation causes none of these calls.
C24_ValidatedBeforeCalls ==
    /\ (Resolving \/ CalledOut) =>
          /\ MissingFields(meeting_info) = {}
          /\ Violations(meeting_info) = {}
    /\ (pc = "done" /\ Violations(meeting_info) # {}) => ~CalledOut
    /\ (/\ pc = "done"
        /\ outcome.status = "raised"
        /\ outcome.origin = "validate_meeting_info") => ~CalledOut

\* an intent completed by the operator was rejected by the validator and
\* the request ended without any call to a store or the calendar
C24_Witness ==
    /\ pc = "done"
    /\ Issued("prompt_title")
    /\ outcome.status = "raised"
    /\ outcome.origin = "validate_meeting_info"
    /\ Violations(meeting_info) # {}
    /\ ~CalledOut

ExternalCalls == {"extract"} \cup StoreOrCalendarCalls

\* how many times the current request issued the call
Count(name) == Cardinality({i \in 1..Len(log) : log[i].call = name})

\* the store is one of the initial stores with at most `more` records appended
GrownBy(store, initial, more) ==
    \E s0 \in initial :
        /\ Len(store) \in Len(s0)..(Len(s0) + more)
        /\ SubSeq(store, 1, Len(s0)) = s0

\* C25: within one request each external call is issued at most once (so
\* no failed call is retried), and the request creates at most one
\* counterparty record, one calendar event and one records page.
C25_AtMostOnce ==
    /\ \A name \in ExternalCalls : Count(name) <= 1
    /\ Len(calendar) <= Count("create_event")
    /\ Len(notes) <= Count("create_page")
    /\ \/ GrownBy(customers, InitialCustomers, 0) /\ GrownBy(leads, InitialLeads, 0)
       \/ /\ Succeeded("create_record")
          /\ \/ GrownBy(customers, InitialCustomers, 1) /\ GrownBy(leads, InitialLeads, 0)
             \/ GrownBy(customers, InitialCustomers, 0) /\ GrownBy(leads, InitialLeads, 1)

\* a request that issued each of the seven external calls, once
C25_Witness ==
    /\ pc = "done"
    /\ outcome.status = "returned"
    /\ \A name \in ExternalCalls : Count(name) = 1

====
